---- MODULE Spec2Model ----
(***************************************************************************)
(* A model of the bounding-volume hierarchy of src/src/bvh.rs: the Morton  *)
(* keys, the radix sort, the Karras topology, the flat arena and the three *)
(* stack traversals, driven by a caller that owns one index and one box    *)
(* array.                                                                  *)
(*                                                                         *)
(* Numbers.  Every coordinate and half size the caller supplies is an even *)
(* integer, so every box corner is even and the halvings of BvhAABB::merge *)
(* are exact, as they are in f64 for such values.  world_size is held in   *)
(* tenths (10000 stands for 1000.0) because 2.2 * m has one decimal.  A    *)
(* u32 is the set of its one bits, a subset of 0..31: a shift or a product *)
(* drops the bits that leave 0..31, which is what wrapping does.  Arena    *)
(* indices, ordinals and sorted positions are 0-based as in the source;    *)
(* the TLA+ sequences that hold them are 1-based, hence the "+ 1".         *)
(***************************************************************************)
EXTENDS Integers, Sequences, FiniteSets, TLC

VARIABLES
    world_size,      \* BVH.world_size, in tenths
    object_guids,    \* BVH.object_guids
    arena,           \* BVH.arena : sequence of FlatNode
    arena_root,      \* BVH.arena_root
    bounding_boxes,  \* the caller's box array, the argument of build and of the queries
    last_build,      \* the last build call: entry point, argument, whether the arena had nodes
    result,          \* what the last query returned, until the caller drops it
    builder,         \* the locals of build's topology loop, one record per internal node
    session          \* the fields of a Session that get_collisions and ray_cast use

vars == <<world_size, object_guids, arena, arena_root, bounding_boxes, last_build, result,
          builder, session>>

\* ------------------------------------------------------------------ bounds
\* The longest box array the caller builds an index from.
MaxBoxes == 3

\* ------------------------------------------------------------ u32 as bits
Pow2Table == <<1, 2, 4, 8, 16, 32, 64, 128, 256, 512, 1024, 2048, 4096, 8192, 16384,
               32768, 65536, 131072, 262144, 524288, 1048576, 2097152, 4194304,
               8388608, 16777216, 33554432, 67108864, 134217728, 268435456,
               536870912, 1073741824>>
Pow2(k) == Pow2Table[k + 1]

\* TLC keeps a constructor [k \in 1..n |-> e] unevaluated and evaluates e at every
\* application; concatenation returns the same sequence with its elements evaluated.
Tuple(f) == f \o <<>>

ToBits(n) == {k \in 0..30 : (n \div Pow2(k)) % 2 = 1}

RECURSIVE FromBits(_)
FromBits(s) == IF s = {} THEN 0
               ELSE LET k == CHOOSE x \in s : TRUE IN Pow2(k) + FromBits(s \ {k})

Shl(s, k) == {b + k : b \in {x \in s : x + k <= 31}}
Shr(s, k) == {b - k : b \in {x \in s : x >= k}}
BitAnd(s, t) == s \cap t
BitOr(s, t) == s \cup t
BitXor(s, t) == (s \ t) \cup (t \ s)

RECURSIVE WrappingAdd(_, _)
WrappingAdd(s, t) == IF t = {} THEN s
                     ELSE WrappingAdd(BitXor(s, t), Shl(BitAnd(s, t), 1))

\* v.wrapping_mul(m): the sum of v shifted to every one bit of m, modulo 2^32.
RECURSIVE wrapping_mul(_, _)
wrapping_mul(v, m) ==
    IF m = {} THEN {}
    ELSE LET k == CHOOSE x \in m : TRUE
         IN WrappingAdd(Shl(v, k), wrapping_mul(v, m \ {k}))

SetMax(s) == CHOOSE x \in s : \A y \in s : y <= x
SetMin(s) == CHOOSE x \in s : \A y \in s : x <= y
Max2(a, b) == IF a >= b THEN a ELSE b
Min2(a, b) == IF a <= b THEN a ELSE b
Abs(a) == IF a < 0 THEN -a ELSE a

clz32(x) == IF x = {} THEN 32 ELSE 31 - SetMax(x)

\* ------------------------------------------------------------ Morton keys
Mask_FF0000FF == (0..7) \cup (24..31)
Mask_0F00F00F == (0..3) \cup (12..15) \cup (24..27)
Mask_C30C30C3 == {0, 1, 6, 7, 12, 13, 18, 19, 24, 25, 30, 31}
Mask_49249249 == {k \in 0..30 : k % 3 = 0}

\* The spreading without the last mask.
ExpandBitsUnmasked(v) ==
    LET v1 == BitAnd(wrapping_mul(v, {0, 16}), Mask_FF0000FF)
        v2 == BitAnd(wrapping_mul(v1, {0, 8}), Mask_0F00F00F)
        v3 == BitAnd(wrapping_mul(v2, {0, 4}), Mask_C30C30C3)
    IN wrapping_mul(v3, {0, 2})

expand_bits(v) ==
    LET v1 == BitAnd(wrapping_mul(v, {0, 16}), Mask_FF0000FF)
        v2 == BitAnd(wrapping_mul(v1, {0, 8}), Mask_0F00F00F)
        v3 == BitAnd(wrapping_mul(v2, {0, 4}), Mask_C30C30C3)
        v4 == BitAnd(wrapping_mul(v3, {0, 2}), Mask_49249249)
    IN v4

\* The quantization without the upper clamps.
QuantizeNoUpperClamp(x, ws) == (Max2(20 * x + ws, 0) * 1023) \div (2 * ws)

\* One axis of calculate_morton_code: (x + W/2) / W as the fraction
\* (20x + W10) / (2 W10), clamped to [0,1], times 1023, truncated, at most 1023.
Quantize(x, ws) ==
    LET den == 2 * ws
        num == Min2(Max2(20 * x + ws, 0), den)
    IN Min2((num * 1023) \div den, 1023)

calculate_morton_code(x, y, z, ws) ==
    LET xx == expand_bits(ToBits(Quantize(x, ws)))
        yy == expand_bits(ToBits(Quantize(y, ws)))
        zz == expand_bits(ToBits(Quantize(z, ws)))
    IN BitOr(xx, BitOr(Shl(yy, 1), Shl(zz, 2)))

\* ------------------------------------------------------------------ boxes
BoundingBox(cx, cy, cz, hx, hy, hz) ==
    [center |-> <<cx, cy, cz>>, half_size |-> <<hx, hy, hz>>]

from_bbox(b) ==
    [cx |-> b.center[1], cy |-> b.center[2], cz |-> b.center[3],
     hx |-> b.half_size[1], hy |-> b.half_size[2], hz |-> b.half_size[3]]

\* A union that keeps the first box.
MergeKeepsFirst(a, b) == a

merge(a, b) ==
    LET min_x == Min2(a.cx - a.hx, b.cx - b.hx)
        min_y == Min2(a.cy - a.hy, b.cy - b.hy)
        min_z == Min2(a.cz - a.hz, b.cz - b.hz)
        max_x == Max2(a.cx + a.hx, b.cx + b.hx)
        max_y == Max2(a.cy + a.hy, b.cy + b.hy)
        max_z == Max2(a.cz + a.hz, b.cz + b.hz)
    IN [cx |-> (min_x + max_x) \div 2, cy |-> (min_y + max_y) \div 2,
        cz |-> (min_z + max_z) \div 2,
        hx |-> (max_x - min_x) \div 2, hy |-> (max_y - min_y) \div 2,
        hz |-> (max_z - min_z) \div 2]

\* The overlap test that never prunes.
IntersectsAlways(a, b) == TRUE

\* An overlap test with open intervals: boxes that only touch do not overlap.
IntersectsOpen(a, b) ==
    /\ a.cx - a.hx < b.cx + b.hx
    /\ a.cx + a.hx > b.cx - b.hx
    /\ a.cy - a.hy < b.cy + b.hy
    /\ a.cy + a.hy > b.cy - b.hy
    /\ a.cz - a.hz < b.cz + b.hz
    /\ a.cz + a.hz > b.cz - b.hz

intersects(a, b) ==
    /\ a.cx - a.hx <= b.cx + b.hx
    /\ a.cx + a.hx >= b.cx - b.hx
    /\ a.cy - a.hy <= b.cy + b.hy
    /\ a.cy + a.hy >= b.cy - b.hy
    /\ a.cz - a.hz <= b.cz + b.hz
    /\ a.cz + a.hz >= b.cz - b.hz

aabb_intersect(aabb1, aabb2) ==
    /\ aabb1.center[1] - aabb1.half_size[1] <= aabb2.center[1] + aabb2.half_size[1]
    /\ aabb1.center[1] + aabb1.half_size[1] >= aabb2.center[1] - aabb2.half_size[1]
    /\ aabb1.center[2] - aabb1.half_size[2] <= aabb2.center[2] + aabb2.half_size[2]
    /\ aabb1.center[2] + aabb1.half_size[2] >= aabb2.center[2] - aabb2.half_size[2]
    /\ aabb1.center[3] - aabb1.half_size[3] <= aabb2.center[3] + aabb2.half_size[3]
    /\ aabb1.center[3] + aabb1.half_size[3] >= aabb2.center[3] - aabb2.half_size[3]

DefaultWorldSize == 10000
MinWorldSize == 100

\* A world size from the signed corner coordinates.
ComputeWorldSizeSigned(boxes) ==
    IF boxes = <<>> THEN DefaultWorldSize
    ELSE Max2(22 * SetMax({0} \cup {boxes[i].center[k] + boxes[i].half_size[k] :
                                       i \in 1..Len(boxes), k \in 1..3}),
              MinWorldSize)

compute_world_size(boxes) ==
    IF boxes = <<>> THEN DefaultWorldSize
    ELSE LET extent(b) ==
                 SetMax({Max2(Abs(b.center[k] + b.half_size[k]),
                              Abs(b.center[k] - b.half_size[k])) : k \in 1..3})
             max_extent == SetMax({0} \cup {extent(boxes[i]) : i \in 1..Len(boxes)})
         IN Max2(22 * max_extent, MinWorldSize)

\* ------------------------------------------------------------- radix sort
RADIX == 1024

Digit(e, shift) == FromBits(BitAnd(Shr(e.morton_code, shift), ToBits(RADIX - 1)))

Digits(objects, shift) ==
    Tuple([k \in 1..Len(objects) |-> Digit(objects[k], shift)])

\* Positions that place the later of two elements of equal digit first.
PositionsTiesReversed(b) ==
    Tuple([k \in 1..Len(b) |->
              Cardinality({m \in 1..Len(b) : b[m] < b[k]})
              + Cardinality({m \in (k + 1)..Len(b) : b[m] = b[k]})])

\* The histogram turned into prefix sums sends the element at k, of digit b[k],
\* to (number of elements with a smaller digit) + (number of earlier elements
\* with the same digit): what tmp[count[b]] followed by count[b] += 1 does.
Positions(b) ==
    Tuple([k \in 1..Len(b) |->
              Cardinality({m \in 1..Len(b) : b[m] < b[k]})
              + Cardinality({m \in 1..(k - 1) : b[m] = b[k]})])

Scatter(objects, pos) ==
    Tuple([p \in 1..Len(objects) |-> objects[CHOOSE k \in 1..Len(objects) : pos[k] + 1 = p]])

CountingSortPass(objects, shift) == Scatter(objects, Positions(Digits(objects, shift)))

RadixSort(objects) ==
    CountingSortPass(CountingSortPass(CountingSortPass(objects, 0), 10), 20)

\* --------------------------------------------------------------- topology
common_prefix(codes, i, j) ==
    IF j < 0 \/ j >= Len(codes) THEN -1
    ELSE LET ci == codes[i + 1]
             cj == codes[j + 1]
         IN IF ci # cj THEN clz32(BitXor(ci, cj))
            ELSE 32 + clz32(BitXor(ToBits(i), ToBits(j)))

RECURSIVE RangeDouble(_, _, _, _, _)
RangeDouble(codes, i, d, delta_min, l) ==
    IF common_prefix(codes, i, i + l * d) > delta_min
    THEN RangeDouble(codes, i, d, delta_min, l * 2)
    ELSE l

RECURSIVE RangeBisect(_, _, _, _, _, _)
RangeBisect(codes, i, d, delta_min, bound, t) ==
    IF t <= 0 THEN bound
    ELSE RangeBisect(codes, i, d, delta_min,
                     IF common_prefix(codes, i, i + (bound + t) * d) > delta_min
                     THEN bound + t ELSE bound,
                     t \div 2)

RangeDirection(codes, i) ==
    IF common_prefix(codes, i, i + 1) - common_prefix(codes, i, i - 1) > 0 THEN 1 ELSE -1

MinMax(i, j) == <<Min2(i, j), Max2(i, j)>>

RangeEnd(codes, i, d, delta_min) ==
    MinMax(i, i + d * RangeBisect(codes, i, d, delta_min, 0,
                                  RangeDouble(codes, i, d, delta_min, 1) \div 2))

RangeFrom(codes, i, d) == RangeEnd(codes, i, d, common_prefix(codes, i, i - d))

determine_range(codes, i) == RangeFrom(codes, i, RangeDirection(codes, i))

RECURSIVE SplitLoop(_, _, _, _, _, _)
SplitLoop(codes, first, last, common, split, step) ==
    LET step1 == (step + 1) \div 2
        new_split == split + step1
        split1 == IF new_split < last /\ common_prefix(codes, first, new_split) > common
                  THEN new_split ELSE split
    IN IF step1 <= 1 THEN split1
       ELSE SplitLoop(codes, first, last, common, split1, step1)

find_split(codes, first, last) ==
    SplitLoop(codes, first, last, common_prefix(codes, first, last), first, last - first)

Leaf(i) == [kind |-> "Leaf", idx |-> i]
Internal(i) == [kind |-> "Internal", idx |-> i]
NoChild == [kind |-> "None", idx |-> -1]
ZeroAABB == [cx |-> 0, cy |-> 0, cz |-> 0, hx |-> 0, hy |-> 0, hz |-> 0]

\* The child assignments with the right child always taken for a leaf.
SetChildrenRightLeaf(t, i, first, last, split) ==
    [internals |->
         [t.internals EXCEPT
             ![i + 1].left = IF split = first THEN Leaf(split) ELSE Internal(split),
             ![i + 1].right = Leaf(split + 1)],
     has_parent |->
         [k \in 1..Len(t.has_parent) |->
             t.has_parent[k] \/ (split # first /\ k = split + 1)]]

\* The child assignments with the has-parent flag of the left child alone.
SetChildrenFlagsLeft(t, i, first, last, split) ==
    [internals |->
         [t.internals EXCEPT
             ![i + 1].left = IF split = first THEN Leaf(split) ELSE Internal(split),
             ![i + 1].right = IF split + 1 = last THEN Leaf(split + 1)
                              ELSE Internal(split + 1)],
     has_parent |->
         [k \in 1..Len(t.has_parent) |->
             t.has_parent[k] \/ (split # first /\ k = split + 1)]]

\* The child assignments with has_parent started afresh by every node.
SetChildrenFreshFlags(t, i, first, last, split) ==
    [internals |->
         [t.internals EXCEPT
             ![i + 1].left = IF split = first THEN Leaf(split) ELSE Internal(split),
             ![i + 1].right = IF split + 1 = last THEN Leaf(split + 1)
                              ELSE Internal(split + 1)],
     has_parent |->
         [k \in 1..Len(t.has_parent) |->
             \/ split # first /\ k = split + 1
             \/ split + 1 # last /\ k = split + 2]]

\* The two child assignments of internal node i, of range first..last and split.
SetChildren(t, i, first, last, split) ==
    [internals |->
         [t.internals EXCEPT
             ![i + 1].left = IF split = first THEN Leaf(split) ELSE Internal(split),
             ![i + 1].right = IF split + 1 = last THEN Leaf(split + 1)
                              ELSE Internal(split + 1)],
     has_parent |->
         [k \in 1..Len(t.has_parent) |->
             \/ t.has_parent[k]
             \/ split # first /\ k = split + 1
             \/ split + 1 # last /\ k = split + 2]]

SplitRange(codes, t, i, r) == SetChildren(t, i, r[1], r[2], find_split(codes, r[1], r[2]))

\* One iteration of the topology loop, for internal node i.
TopologyStep(codes, t, i) == SplitRange(codes, t, i, determine_range(codes, i))

RECURSIVE TopologyLoop(_, _, _)
TopologyLoop(codes, t, i) ==
    IF i >= Len(codes) - 1 THEN t
    ELSE TopologyLoop(codes, TopologyStep(codes, t, i), i + 1)

Topology(codes) ==
    LET n == Len(codes)
        t0 == [internals |-> Tuple([k \in 1..(n - 1) |->
                                       [left |-> NoChild, right |-> NoChild,
                                        object_id |-> -1, aabb |-> ZeroAABB]]),
               has_parent |-> Tuple([k \in 1..(n - 1) |-> FALSE])]
    IN TopologyLoop(codes, t0, 0)

\* The first internal node without a parent, 0 when every flag is set.
FindRoot(has_parent) ==
    LET free == {k \in 1..Len(has_parent) : ~has_parent[k]}
    IN IF free = {} THEN 0 ELSE SetMin(free) - 1

\* Post-order union of the children's boxes: compute_internal returns the
\* internals with the boxes of the subtree of idx filled in, and the box of idx.
RECURSIVE compute_internal(_, _, _)
RECURSIVE ChildBox(_, _, _)
ChildBox(child, internals, leaves) ==
    IF child.kind = "Leaf"
    THEN [internals |-> internals, aabb |-> leaves[child.idx + 1].aabb]
    ELSE compute_internal(child.idx, internals, leaves)

SetBox(idx, internals, merged) ==
    [internals |-> [internals EXCEPT ![idx + 1].aabb = merged], aabb |-> merged]

MergeRight(idx, a, rb) == SetBox(idx, rb.internals, merge(a, rb.aabb))

MergeLeft(idx, leaves, ra) ==
    MergeRight(idx, ra.aabb, ChildBox(ra.internals[idx + 1].right, ra.internals, leaves))

compute_internal(idx, internals, leaves) ==
    MergeLeft(idx, leaves, ChildBox(internals[idx + 1].left, internals, leaves))

\* build_arena_node appends the subtree of node_ref to the arena ar and returns
\* the arena and the index of the subtree's root in it.
RECURSIVE build_arena_node(_, _, _, _)
\* The back-fill of the left index alone.
BackFillLeftOnly(idx, left_idx, r) ==
    [arena |-> [r.arena EXCEPT ![idx + 1].left = left_idx], idx |-> idx]

\* The back-fill that stores the left index in both child fields.
BackFillLeftTwice(idx, left_idx, r) ==
    [arena |-> [r.arena EXCEPT ![idx + 1].left = left_idx, ![idx + 1].right = left_idx],
     idx |-> idx]

BackFill(idx, left_idx, r) ==
    [arena |-> [r.arena EXCEPT ![idx + 1].left = left_idx, ![idx + 1].right = r.idx],
     idx |-> idx]

BuildRight(ii, internals, leaves, idx, l) ==
    BackFill(idx, l.idx, build_arena_node(internals[ii + 1].right, internals, leaves, l.arena))

build_arena_node(node_ref, internals, leaves, ar) ==
    IF node_ref.kind = "Leaf"
    THEN [arena |-> Append(ar, [left |-> -1, right |-> -1,
                                object_id |-> leaves[node_ref.idx + 1].object_id,
                                aabb |-> leaves[node_ref.idx + 1].aabb]),
          idx |-> Len(ar)]
    ELSE BuildRight(node_ref.idx, internals, leaves, Len(ar),
                    build_arena_node(internals[node_ref.idx + 1].left, internals, leaves,
                                     Append(ar, [left |-> -1, right |-> -1,
                                                 object_id |-> -1,
                                                 aabb |-> internals[node_ref.idx + 1].aabb])))

\* ------------------------------------------------------------------ build
SortedObjects(boxes, ws) ==
    RadixSort(Tuple([i \in 1..Len(boxes) |->
                        [id |-> i - 1,
                         morton_code |-> calculate_morton_code(boxes[i].center[1],
                                                               boxes[i].center[2],
                                                               boxes[i].center[3], ws)]]))

Codes(objects) == Tuple([k \in 1..Len(objects) |-> objects[k].morton_code])

Leaves(boxes, objects) ==
    Tuple([k \in 1..Len(objects) |->
              [left |-> NoChild, right |-> NoChild, object_id |-> objects[k].id,
               aabb |-> from_bbox(boxes[objects[k].id + 1])]])

SetArena(self, flat) == [self EXCEPT !.arena = flat.arena, !.arena_root = flat.idx]

\* A flattening that appends to the arena the index holds instead of an emptied one.
FlattenOntoArena(self, leaves, internals, root_idx) ==
    SetArena(self, build_arena_node(Internal(root_idx),
                                    compute_internal(root_idx, internals, leaves).internals,
                                    leaves, self.arena))

Flatten(self, leaves, internals, root_idx) ==
    SetArena(self, build_arena_node(Internal(root_idx),
                                    compute_internal(root_idx, internals, leaves).internals,
                                    leaves, <<>>))

BuildTree(self, leaves, topo) ==
    Flatten(self, leaves, topo.internals, FindRoot(topo.has_parent))

\* The build after the sort with a single-object case that leaves arena_root alone.
BuildSortedKeepsRoot(self, boxes, objects) ==
    IF Len(objects) = 1
    THEN [self EXCEPT
             !.arena = <<[left |-> -1, right |-> -1, object_id |-> objects[1].id,
                          aabb |-> from_bbox(boxes[objects[1].id + 1])]>>]
    ELSE BuildTree(self, Leaves(boxes, objects), Topology(Codes(objects)))

BuildSorted(self, boxes, objects) ==
    IF Len(objects) = 1
    THEN [self EXCEPT
             !.arena = <<[left |-> -1, right |-> -1, object_id |-> objects[1].id,
                          aabb |-> from_bbox(boxes[objects[1].id + 1])]>>,
             !.arena_root = 0]
    ELSE BuildTree(self, Leaves(boxes, objects), Topology(Codes(objects)))

\* A build that returns early on an empty list without clearing the arena.
BuildKeepsArena(self, boxes) ==
    IF boxes = <<>>
    THEN self
    ELSE BuildSorted(self, boxes, SortedObjects(boxes, self.world_size))

\* BVH::build on the index self = [world_size, object_guids, arena, arena_root].
build(self, boxes) ==
    IF boxes = <<>>
    THEN [self EXCEPT !.arena = <<>>, !.arena_root = -1]
    ELSE BuildSorted(self, boxes, SortedObjects(boxes, self.world_size))

new == [world_size |-> DefaultWorldSize, object_guids |-> <<>>, arena |-> <<>>,
        arena_root |-> -1]

BuildGuids(self, boxes, guids) ==
    build([self EXCEPT !.object_guids = guids,
                       !.world_size = compute_world_size(boxes)],
          boxes)

\* boxes_with_guids is a sequence of <<box, guid>> pairs.
build_with_guids(self, boxes_with_guids) ==
    IF boxes_with_guids = <<>>
    THEN [self EXCEPT !.object_guids = <<>>]
    ELSE BuildGuids(self,
                    Tuple([i \in 1..Len(boxes_with_guids) |-> boxes_with_guids[i][1]]),
                    Tuple([i \in 1..Len(boxes_with_guids) |-> boxes_with_guids[i][2]]))

from_boxes(boxes, ws) == build([new EXCEPT !.world_size = ws], boxes)

\* ------------------------------------------------------------- traversals
Top(stack) == stack[Len(stack)]
Pop(stack) == SubSeq(stack, 1, Len(stack) - 1)

\* The leaf test of find_collisions without the comparison with the query's ordinal.
IsCollisionWithSelf(leaf_id, object_id, query_bbox, boxes) ==
    /\ leaf_id < Len(boxes)
    /\ aabb_intersect(query_bbox, boxes[leaf_id + 1])

\* The leaf test of find_collisions without the test against the caller's box.
IsCollisionLeafOnly(leaf_id, object_id, query_bbox, boxes) ==
    /\ leaf_id # object_id
    /\ leaf_id < Len(boxes)

\* Whether find_collisions reports the leaf of ordinal leaf_id.
IsCollision(leaf_id, object_id, query_bbox, boxes) ==
    /\ leaf_id # object_id
    /\ leaf_id < Len(boxes)
    /\ aabb_intersect(query_bbox, boxes[leaf_id + 1])

\* The while loop of find_collisions; popped lists the node indices in the
\* order the loop popped them.
RECURSIVE FindLoop(_, _, _, _, _, _)
FindLoop(self, object_id, query_bbox, boxes, stack, acc) ==
    IF stack = <<>> THEN acc
    ELSE LET node_idx == Top(stack)
             rest == Pop(stack)
             node == self.arena[node_idx + 1]
             acc1 == [acc EXCEPT !.check_count = @ + 1,
                                 !.popped = Append(@, node_idx)]
         IN IF ~intersects(from_bbox(query_bbox), node.aabb)
            THEN FindLoop(self, object_id, query_bbox, boxes, rest, acc1)
            ELSE IF node.object_id >= 0
            THEN FindLoop(self, object_id, query_bbox, boxes, rest,
                          IF IsCollision(node.object_id, object_id, query_bbox, boxes)
                          THEN [acc1 EXCEPT !.collisions = Append(@, node.object_id)]
                          ELSE acc1)
            ELSE FindLoop(self, object_id, query_bbox, boxes,
                          rest \o (IF node.left >= 0 THEN <<node.left>> ELSE <<>>)
                               \o (IF node.right >= 0 THEN <<node.right>> ELSE <<>>),
                          acc1)

find_collisions(self, object_id, query_bbox, boxes) ==
    IF self.arena_root < 0 \/ self.arena = <<>>
    THEN [collisions |-> <<>>, check_count |-> 0, popped |-> <<>>]
    ELSE FindLoop(self, object_id, query_bbox, boxes, <<self.arena_root>>,
                  [collisions |-> <<>>, check_count |-> 0, popped |-> <<>>])

\* The children pushed for an overlapping pair (a_idx, b_idx) that is not a
\* pair of leaves, in push order.
Expand(self, a_idx, b_idx) ==
    LET a == self.arena[a_idx + 1]
        b == self.arena[b_idx + 1]
        a_leaf == a.object_id >= 0
        b_leaf == b.object_id >= 0
        one(c, pair) == IF c THEN <<pair>> ELSE <<>>
    IN IF a_idx = b_idx
       THEN IF a.left >= 0
            THEN <<<<a.left, a.left>>>>
                 \o (IF a.right >= 0
                     THEN <<<<a.left, a.right>>, <<a.right, a.right>>>>
                     ELSE <<>>)
            ELSE <<>>
       ELSE IF ~a_leaf /\ ~b_leaf
       THEN one(a.left >= 0 /\ b.left >= 0, <<a.left, b.left>>)
            \o one(a.left >= 0 /\ b.right >= 0, <<a.left, b.right>>)
            \o one(a.right >= 0 /\ b.left >= 0, <<a.right, b.left>>)
            \o one(a.right >= 0 /\ b.right >= 0, <<a.right, b.right>>)
       ELSE IF a_leaf /\ ~b_leaf
       THEN one(b.left >= 0, <<a_idx, b.left>>) \o one(b.right >= 0, <<a_idx, b.right>>)
       ELSE IF ~a_leaf /\ b_leaf
       THEN one(a.left >= 0, <<a.left, b_idx>>) \o one(a.right >= 0, <<a.right, b_idx>>)
       ELSE <<>>

\* The test of a leaf pair without the order of its ordinals.
RecordsPairInAnyOrder(i, j, visited) == i # j /\ i < Len(visited) /\ j < Len(visited)

\* Whether the leaf pair with ordinals (i, j) is recorded.
RecordsPair(i, j, visited) == i < j /\ i < Len(visited) /\ j < Len(visited)

\* The while loop of check_all_collisions.
RECURSIVE PairLoop(_, _, _)
PairLoop(self, stack, acc) ==
    IF stack = <<>> THEN acc
    ELSE LET a_idx == Top(stack)[1]
             b_idx == Top(stack)[2]
             rest == Pop(stack)
             a == self.arena[a_idx + 1]
             b == self.arena[b_idx + 1]
             acc1 == [acc EXCEPT !.popped = Append(@, <<a_idx, b_idx>>)]
         IN IF ~intersects(a.aabb, b.aabb)
            THEN PairLoop(self, rest, acc1)
            ELSE LET acc2 == [acc1 EXCEPT !.total_checks = @ + 1]
                 IN IF a.object_id >= 0 /\ b.object_id >= 0
                    THEN PairLoop(self, rest,
                                  IF RecordsPair(a.object_id, b.object_id, acc2.visited)
                                  THEN [acc2 EXCEPT
                                           !.all_collisions =
                                               Append(@, <<a.object_id, b.object_id>>),
                                           !.visited[a.object_id + 1] = TRUE,
                                           !.visited[b.object_id + 1] = TRUE]
                                  ELSE acc2)
                    ELSE PairLoop(self, rest \o Expand(self, a_idx, b_idx), acc2)

\* The flagged ordinals in descending order.
RECURSIVE SortDescending(_)
SortDescending(s) ==
    IF s = {} THEN <<>> ELSE <<SetMax(s)>> \o SortDescending(s \ {SetMax(s)})

\* colliding_indices.sort_unstable() of the flagged ordinals.
RECURSIVE SortUnstable(_)
SortUnstable(s) ==
    IF s = {} THEN <<>> ELSE <<SetMin(s)>> \o SortUnstable(s \ {SetMin(s)})

PairResult(r) ==
    [all_collisions |-> r.all_collisions,
     colliding_indices |->
         SortUnstable({k - 1 : k \in {m \in 1..Len(r.visited) : r.visited[m]}}),
     total_checks |-> r.total_checks,
     popped |-> r.popped]

\* Returns all_collisions, colliding_indices and total_checks, and the popped
\* node pairs in pop order.
check_all_collisions(self, boxes) ==
    IF self.arena_root < 0 \/ self.arena = <<>>
    THEN [all_collisions |-> <<>>, colliding_indices |-> <<>>, total_checks |-> 0,
          popped |-> <<>>]
    ELSE PairResult(PairLoop(self, <<<<self.arena_root, self.arena_root>>>>,
                             [all_collisions |-> <<>>,
                              visited |-> Tuple([k \in 1..Len(boxes) |-> FALSE]),
                              total_checks |-> 0, popped |-> <<>>]))

\* The translation with the bound on the second ordinal off by one.
RECURSIVE FilterMapGuidsShort(_, _)
FilterMapGuidsShort(pairs, guids) ==
    IF pairs = <<>> THEN <<>>
    ELSE (IF pairs[1][1] < Len(guids) /\ pairs[1][2] + 1 < Len(guids)
          THEN <<<<guids[pairs[1][1] + 1], guids[pairs[1][2] + 1]>>>>
          ELSE <<>>)
         \o FilterMapGuidsShort(Tail(pairs), guids)

\* check_all_collisions_guids: the pairs of check_all_collisions mapped through
\* object_guids, a pair with an ordinal outside object_guids dropped.
RECURSIVE FilterMapGuids(_, _)
FilterMapGuids(pairs, guids) ==
    IF pairs = <<>> THEN <<>>
    ELSE (IF pairs[1][1] < Len(guids) /\ pairs[1][2] < Len(guids)
          THEN <<<<guids[pairs[1][1] + 1], guids[pairs[1][2] + 1]>>>>
          ELSE <<>>)
         \o FilterMapGuids(Tail(pairs), guids)

check_all_collisions_guids(self, boxes) ==
    FilterMapGuids(check_all_collisions(self, boxes).all_collisions, self.object_guids)

\* ---------------------------------------------------------------- ray cast
\* The f64 values of the slab test: a finite number, an infinity or NaN.  Every
\* direction component is -1, 0 or 1, so a reciprocal is the component itself
\* or, for 0, +infinity, and a product with it is exact.
Fin(n) == [k |-> "fin", v |-> n]
PosInf == [k |-> "inf", v |-> 1]
NegInf == [k |-> "inf", v |-> -1]
NaN == [k |-> "nan", v |-> 0]

\* a < b and a <= b on f64: false as soon as one side is NaN.
FLt(a, b) ==
    /\ a.k # "nan" /\ b.k # "nan"
    /\ \/ a.k = "fin" /\ b.k = "fin" /\ a.v < b.v
       \/ a.k = "inf" /\ a.v = -1 /\ ~(b.k = "inf" /\ b.v = -1)
       \/ b.k = "inf" /\ b.v = 1 /\ ~(a.k = "inf" /\ a.v = 1)
FLe(a, b) == a.k # "nan" /\ b.k # "nan" /\ (a = b \/ FLt(a, b))

\* f64::min and f64::max: the other operand when one is NaN.
FMin(a, b) == IF a.k = "nan" THEN b ELSE IF b.k = "nan" THEN a
              ELSE IF FLt(b, a) THEN b ELSE a
FMax(a, b) == IF a.k = "nan" THEN b ELSE IF b.k = "nan" THEN a
              ELSE IF FLt(a, b) THEN b ELSE a

\* (corner - origin) * inv, where inv is 1 / dir, or +infinity when dir = 0.
SlabT(corner, origin, dir) ==
    LET diff == corner - origin
    IN IF dir # 0 THEN Fin(diff * dir)
       ELSE IF diff > 0 THEN PosInf
       ELSE IF diff < 0 THEN NegInf
       ELSE NaN

SlabInterval(tmin, tmax) ==
    IF FLe(tmin, tmax)
    THEN [some |-> TRUE, tmin |-> tmin, tmax |-> tmax]
    ELSE [some |-> FALSE, tmin |-> NaN, tmax |-> NaN]

Slabs(tx1, tx2, ty1, ty2, tz1, tz2) ==
    SlabInterval(FMax(FMax(FMin(tx1, tx2), FMin(ty1, ty2)), FMin(tz1, tz2)),
                 FMin(FMin(FMax(tx1, tx2), FMax(ty1, ty2)), FMax(tz1, tz2)))

\* Some((tmin, tmax)) as [some |-> TRUE, ...], None as [some |-> FALSE, ...].
ray_bvhaabb_intersect(origin, direction, aabb) ==
    Slabs(SlabT(aabb.cx - aabb.hx, origin[1], direction[1]),
          SlabT(aabb.cx + aabb.hx, origin[1], direction[1]),
          SlabT(aabb.cy - aabb.hy, origin[2], direction[2]),
          SlabT(aabb.cy + aabb.hy, origin[2], direction[2]),
          SlabT(aabb.cz - aabb.hz, origin[3], direction[3]),
          SlabT(aabb.cz + aabb.hz, origin[3], direction[3]))

\* What ray_cast makes of the slab test: Some with a tmax that is not negative.
NotBehind(r) == r.some /\ ~FLt(r.tmax, Fin(0))
RayHits(origin, direction, aabb) ==
    NotBehind(ray_bvhaabb_intersect(origin, direction, aabb))

RECURSIVE RayLoop(_, _, _, _, _)
RayLoop(self, origin, direction, stack, acc) ==
    IF stack = <<>> THEN acc
    ELSE LET node_idx == Top(stack)
             rest == Pop(stack)
             node == self.arena[node_idx + 1]
             acc1 == [acc EXCEPT !.popped = Append(@, node_idx)]
         IN IF ~RayHits(origin, direction, node.aabb)
            THEN RayLoop(self, origin, direction, rest, acc1)
            ELSE IF node.object_id >= 0
            THEN RayLoop(self, origin, direction, rest,
                         [acc1 EXCEPT !.candidate_leaf_ids = Append(@, node.object_id)])
            ELSE RayLoop(self, origin, direction,
                         rest \o (IF node.left >= 0 THEN <<node.left>> ELSE <<>>)
                              \o (IF node.right >= 0 THEN <<node.right>> ELSE <<>>),
                         acc1)

RayResult(r) ==
    [hit |-> r.candidate_leaf_ids # <<>>, candidate_leaf_ids |-> r.candidate_leaf_ids,
     popped |-> r.popped]

\* candidate_leaf_ids is the caller's buffer as passed in; the value returned
\* holds the boolean, the buffer afterwards and the popped nodes.
ray_cast(self, origin, direction, candidate_leaf_ids, find_all) ==
    IF self.arena_root < 0 \/ self.arena = <<>>
    THEN [hit |-> FALSE, candidate_leaf_ids |-> <<>>, popped |-> <<>>]
    ELSE IF ~RayHits(origin, direction, self.arena[self.arena_root + 1].aabb)
    THEN [hit |-> FALSE, candidate_leaf_ids |-> <<>>, popped |-> <<>>]
    ELSE RayResult(RayLoop(self, origin, direction, <<self.arena_root>>,
                           [candidate_leaf_ids |-> <<>>, popped |-> <<>>]))

\* ------------------------------------------------------------- the caller
\* The boxes the caller draws its array from: two that overlap, one that
\* touches both along y, and one apart from all three along z.
BoxSet == {BoundingBox(0, 0, 0, 2, 2, 2), BoundingBox(2, 0, 0, 2, 2, 2),
           BoundingBox(2, 4, 0, 2, 2, 2), BoundingBox(0, 0, 6, 2, 2, 2)}

BoxArrays == UNION {[1..n -> BoxSet] : n \in 0..MaxBoxes}

\* World sizes a caller passes to from_boxes: 100.0, as the tests do.
WorldSizes == {1000}

\* The identifier the caller attaches to the box at ordinal i.
Guid(i) == 100 + i

\* The boxes a caller queries with when it does not query with its own box.
ProbeBoxes == {BoundingBox(2, 0, 0, 2, 2, 2), BoundingBox(4, 4, 0, 0, 0, 0)}

\* The rays the caller casts, as <<origin, direction>>.
Rays == {<<<<0, 0, 0>>, <<1, 0, 0>>>>, <<<<6, 0, 0>>, <<-1, 0, 0>>>>,
         <<<<0, 0, 0>>, <<0, 0, 0>>>>}

NoResult == [op |-> "none"]

\* No build is in progress, and the caller holds no Session.
NoBuilder == [pc |-> "none"]
NoSession == [name |-> "none"]

Self == [world_size |-> world_size, object_guids |-> object_guids, arena |-> arena,
         arena_root |-> arena_root]

Become(s) ==
    /\ world_size' = s.world_size
    /\ object_guids' = s.object_guids
    /\ arena' = s.arena
    /\ arena_root' = s.arena_root

Init ==
    /\ world_size = new.world_size
    /\ object_guids = new.object_guids
    /\ arena = new.arena
    /\ arena_root = new.arena_root
    /\ bounding_boxes \in BoxArrays
    /\ last_build = [op |-> "new", boxes |-> <<>>, had_nodes |-> FALSE]
    /\ result = NoResult
    /\ builder = NoBuilder
    /\ session = NoSession

\* The caller makes one call at a time and drops the value a query returned
\* before the next call.
Build ==
    /\ result = NoResult
    /\ Become(build(Self, bounding_boxes))
    /\ last_build' = [op |-> "build", boxes |-> bounding_boxes, had_nodes |-> arena # <<>>]
    /\ UNCHANGED <<bounding_boxes, result, builder, session>>

BuildWithGuids ==
    /\ result = NoResult
    /\ Become(build_with_guids(Self,
                  Tuple([i \in 1..Len(bounding_boxes) |->
                            <<bounding_boxes[i], Guid(i - 1)>>])))
    /\ last_build' = [op |-> "build_with_guids", boxes |-> bounding_boxes, had_nodes |-> arena # <<>>]
    /\ UNCHANGED <<bounding_boxes, result, builder, session>>

FromBoxes ==
    /\ result = NoResult
    /\ \E ws \in WorldSizes : Become(from_boxes(bounding_boxes, ws))
    /\ last_build' = [op |-> "from_boxes", boxes |-> bounding_boxes, had_nodes |-> arena # <<>>]
    /\ UNCHANGED <<bounding_boxes, result, builder, session>>

\* The caller removes the last box of its array; the index is not told.
PopBox ==
    /\ result = NoResult
    /\ bounding_boxes # <<>>
    /\ bounding_boxes' = Pop(bounding_boxes)
    /\ UNCHANGED <<world_size, object_guids, arena, arena_root, last_build, result, builder, session>>

FindCollisions ==
    /\ result = NoResult
    /\ \E object_id \in 0..MaxBoxes :
       \E query_bbox \in ProbeBoxes \cup (IF object_id < Len(bounding_boxes)
                                          THEN {bounding_boxes[object_id + 1]} ELSE {}) :
       \E r \in {find_collisions(Self, object_id, query_bbox, bounding_boxes)} :
           result' = [op |-> "find_collisions", object_id |-> object_id,
                      query_bbox |-> query_bbox, collisions |-> r.collisions,
                      check_count |-> r.check_count, popped |-> r.popped]
    /\ UNCHANGED <<world_size, object_guids, arena, arena_root, bounding_boxes, last_build, builder, session>>

CheckAllCollisions ==
    /\ result = NoResult
    /\ \E r \in {check_all_collisions(Self, bounding_boxes)} :
           result' = [op |-> "check_all_collisions",
                      all_collisions |-> r.all_collisions,
                      colliding_indices |-> r.colliding_indices,
                      total_checks |-> r.total_checks, popped |-> r.popped]
    /\ UNCHANGED <<world_size, object_guids, arena, arena_root, bounding_boxes, last_build, builder, session>>

CheckAllCollisionsGuids ==
    /\ result = NoResult
    /\ result' = [op |-> "check_all_collisions_guids",
                  pairs |-> check_all_collisions_guids(Self, bounding_boxes)]
    /\ UNCHANGED <<world_size, object_guids, arena, arena_root, bounding_boxes, last_build, builder, session>>

RayCast ==
    /\ result = NoResult
    /\ \E ray \in Rays, buffer \in {<<>>, <<MaxBoxes>>}, find_all \in BOOLEAN :
       \E r \in {ray_cast(Self, ray[1], ray[2], buffer, find_all)} :
           result' = [op |-> "ray_cast", origin |-> ray[1], direction |-> ray[2],
                      buffer |-> buffer, find_all |-> find_all, hit |-> r.hit,
                      candidate_leaf_ids |-> r.candidate_leaf_ids,
                      popped |-> r.popped]
    /\ UNCHANGED <<world_size, object_guids, arena, arena_root, bounding_boxes, last_build, builder, session>>

\* The caller is done with the value the query returned.
Done ==
    /\ result # NoResult
    /\ result' = NoResult
    /\ UNCHANGED <<world_size, object_guids, arena, arena_root, bounding_boxes, last_build, builder, session>>

Next ==
    \/ Build
    \/ BuildWithGuids
    \/ FromBoxes
    \/ PopBox
    \/ FindCollisions
    \/ CheckAllCollisions
    \/ CheckAllCollisionsGuids
    \/ RayCast
    \/ Done

Spec == Init /\ [][Next]_vars

\* ----------------------------------------------------------- builds alone
\* The caller of Spec without its queries: the arenas and the index fields it
\* reaches are those of Spec, which the queries only read.
NextBuild ==
    \/ Build
    \/ BuildWithGuids
    \/ FromBoxes
    \/ PopBox

SpecBuild == Init /\ [][NextBuild]_vars

\* ------------------------------------------------- the functions on their own
\* A caller of the functions that take no index: calculate_morton_code,
\* expand_bits, compute_world_size, and the radix sort that build runs on its
\* object list.  The index stays the new one.
MaxObjects == 3

MortonCoords == {-60, -50, -2, 0, 2, 50, 60}
MortonWorldSizes == {100, 132, 1000, 10000}
TenBits == 0..(RADIX - 1)

\* Morton codes that differ in the low, the middle or the high digit.
SortCodes == {ToBits(1), ToBits(2), ToBits(1025), ToBits(1048577), ToBits(1049600)}

\* The object lists build hands to the sort: one ObjectInfo per ordinal.
ObjectLists ==
    UNION {{Tuple([k \in 1..n |-> [id |-> k - 1, morton_code |-> codes[k]]]) :
               codes \in [1..n -> SortCodes]} : n \in 1..MaxObjects}

WorldBoxes == {BoundingBox(0, 0, 0, 2, 2, 2), BoundingBox(-8, 0, 0, 2, 2, 2),
               BoundingBox(0, 6, 0, 0, 0, 0), BoundingBox(0, 0, 2, 2, 4, 20)}
WorldBoxArrays == UNION {[1..n -> WorldBoxes] : n \in 0..MaxObjects}

InitPure ==
    /\ world_size = new.world_size
    /\ object_guids = new.object_guids
    /\ arena = new.arena
    /\ arena_root = new.arena_root
    /\ bounding_boxes = <<>>
    /\ last_build = [op |-> "new", boxes |-> <<>>, had_nodes |-> FALSE]
    /\ result = NoResult
    /\ builder = NoBuilder
    /\ session = NoSession

CalculateMortonCode ==
    /\ result = NoResult
    /\ \E x \in MortonCoords, y \in MortonCoords, z \in MortonCoords,
          ws \in MortonWorldSizes :
           result' = [op |-> "calculate_morton_code", x |-> x, y |-> y, z |-> z,
                      world_size |-> ws, code |-> calculate_morton_code(x, y, z, ws)]
    /\ UNCHANGED <<world_size, object_guids, arena, arena_root, bounding_boxes, last_build, builder, session>>

ExpandBits ==
    /\ result = NoResult
    /\ \E v \in TenBits : result' = [op |-> "expand_bits", v |-> v,
                                     bits |-> expand_bits(ToBits(v))]
    /\ UNCHANGED <<world_size, object_guids, arena, arena_root, bounding_boxes, last_build, builder, session>>

SortObjects ==
    /\ result = NoResult
    /\ \E objects \in ObjectLists :
           result' = [op |-> "radix_sort", objects |-> objects,
                      sorted |-> RadixSort(objects)]
    /\ UNCHANGED <<world_size, object_guids, arena, arena_root, bounding_boxes, last_build, builder, session>>

ComputeWorldSize ==
    /\ result = NoResult
    /\ \E boxes \in WorldBoxArrays :
           result' = [op |-> "compute_world_size", boxes |-> boxes,
                      world_size |-> compute_world_size(boxes)]
    /\ UNCHANGED <<world_size, object_guids, arena, arena_root, bounding_boxes, last_build, builder, session>>

NextPure ==
    \/ CalculateMortonCode
    \/ ExpandBits
    \/ SortObjects
    \/ ComputeWorldSize
    \/ Done

SpecPure == InitPure /\ [][NextPure]_vars

\* ------------------------------------------------------ rays and flat boxes
\* A caller that builds an index from boxes some of which have no extent along
\* an axis, as the box of a planar object has, and casts rays at it.
RayBoxes == {BoundingBox(4, 0, 0, 2, 0, 2), BoundingBox(4, 2, 0, 2, 2, 2),
             BoundingBox(4, 0, 0, 2, 2, 2), BoundingBox(-6, 0, 0, 2, 2, 2)}
RayBoxArrays == UNION {[1..n -> RayBoxes] : n \in 0..MaxBoxes}

InitRay ==
    /\ world_size = new.world_size
    /\ object_guids = new.object_guids
    /\ arena = new.arena
    /\ arena_root = new.arena_root
    /\ bounding_boxes \in RayBoxArrays
    /\ last_build = [op |-> "new", boxes |-> <<>>, had_nodes |-> FALSE]
    /\ result = NoResult
    /\ builder = NoBuilder
    /\ session = NoSession

NextRay ==
    \/ Build
    \/ RayCast
    \/ Done

SpecRay == InitRay /\ [][NextRay]_vars

\* ------------------------------------------------- a caller's array changes
\* find_collisions reads the caller's array, which the caller owns: between the
\* build and the query the caller may move a box or drop the last one.
StaleBoxes == {BoundingBox(0, 0, 0, 2, 2, 2), BoundingBox(2, 0, 0, 2, 2, 2),
               BoundingBox(0, 0, 6, 2, 2, 2)}
StaleBoxArrays == UNION {[1..n -> StaleBoxes] : n \in 0..MaxBoxes}

InitStale ==
    /\ world_size = new.world_size
    /\ object_guids = new.object_guids
    /\ arena = new.arena
    /\ arena_root = new.arena_root
    /\ bounding_boxes \in StaleBoxArrays
    /\ last_build = [op |-> "new", boxes |-> <<>>, had_nodes |-> FALSE]
    /\ result = NoResult
    /\ builder = NoBuilder
    /\ session = NoSession

ReplaceBox ==
    /\ result = NoResult
    /\ \E k \in 1..Len(bounding_boxes), b \in StaleBoxes :
           /\ b # bounding_boxes[k]
           /\ bounding_boxes' = [bounding_boxes EXCEPT ![k] = b]
    /\ UNCHANGED <<world_size, object_guids, arena, arena_root, last_build, result, builder, session>>

NextStale ==
    \/ Build
    \/ ReplaceBox
    \/ PopBox
    \/ FindCollisions
    \/ Done

SpecStale == InitStale /\ [][NextStale]_vars

\* ------------------------------------------------ the topology loop, stepwise
\* The loop `for i in 0..(n - 1)` of build with the loops of determine_range
\* and find_split taken one iteration at a time.  builder.node[i + 1] holds the
\* locals of the iteration for internal node i.  With order "loop" the
\* iterations run one after the other as the for loop runs them; with order
\* "any" an iteration may start and advance whenever it is not finished.
\* builder.linked lists the nodes in the order their children were assigned.
MaxCodes == 4

\* Morton codes after the sort: ascending, equal codes allowed.
TopoCodeValues == {1, 2, 5}
TopoCodes ==
    {c \in UNION {[1..n -> {ToBits(v) : v \in TopoCodeValues}] : n \in 2..MaxCodes} :
        \A k \in 1..(Len(c) - 1) : FromBits(c[k]) <= FromBits(c[k + 1])}

NodeLocals == [pc |-> "range", d |-> 0, delta_min |-> 0, l |-> 0, bound |-> 0, t |-> 0,
               first |-> 0, last |-> 0, common |-> 0, split |-> 0, step |-> 0]

StartBuilder(codes, order) ==
    [pc |-> "topology", order |-> order, codes |-> codes,
     node |-> Tuple([k \in 1..(Len(codes) - 1) |-> NodeLocals]),
     internals |-> Tuple([k \in 1..(Len(codes) - 1) |->
                             [left |-> NoChild, right |-> NoChild,
                              object_id |-> -1, aabb |-> ZeroAABB]]),
     has_parent |-> Tuple([k \in 1..(Len(codes) - 1) |-> FALSE]),
     linked |-> <<>>, root_idx |-> 0]

InitBuilder(order) ==
    /\ world_size = new.world_size
    /\ object_guids = new.object_guids
    /\ arena = new.arena
    /\ arena_root = new.arena_root
    /\ bounding_boxes = <<>>
    /\ last_build = [op |-> "new", boxes |-> <<>>, had_nodes |-> FALSE]
    /\ result = NoResult
    /\ builder \in {StartBuilder(codes, order) : codes \in TopoCodes}
    /\ session = NoSession

InitTopology == InitBuilder("loop")
InitTopologyAnyOrder == InitBuilder("any")

\* Whether the iteration for internal node i may take its next step.
Runnable(i) ==
    /\ builder.pc = "topology"
    /\ builder.node[i + 1].pc # "done"
    /\ builder.order = "loop" => \A k \in 1..i : builder.node[k].pc = "done"

SetNode(i, locals) ==
    /\ builder' = [builder EXCEPT !.node[i + 1] = locals]
    /\ UNCHANGED <<world_size, object_guids, arena, arena_root, bounding_boxes, last_build,
                   result, session>>

\* l <<= 1 and step = (step + 1) >> 1.
DoubleL(l) == l * 2
StepStays(step) == step
HalveStep(step) == (step + 1) \div 2

\* determine_range up to the first test of the doubling loop.
Direction(i, me) ==
    /\ me.pc = "range"
    /\ \E d \in {RangeDirection(builder.codes, i)} :
           SetNode(i, [me EXCEPT !.pc = "double", !.d = d, !.l = 1,
                                 !.delta_min = common_prefix(builder.codes, i, i - d)])

\* One test of `while common_prefix(i, i + l * d) > delta_min`.
Double(i, me) ==
    /\ me.pc = "double"
    /\ IF common_prefix(builder.codes, i, i + me.l * me.d) > me.delta_min
       THEN SetNode(i, [me EXCEPT !.l = DoubleL(me.l)])
       ELSE SetNode(i, [me EXCEPT !.pc = "bisect", !.bound = 0, !.t = me.l \div 2])

\* One test of `while t > 0`; on exit the range and the locals of find_split.
Bisect(i, me) ==
    /\ me.pc = "bisect"
    /\ IF me.t > 0
       THEN SetNode(i, [me EXCEPT
                !.bound = IF common_prefix(builder.codes, i, i + (me.bound + me.t) * me.d)
                             > me.delta_min
                          THEN me.bound + me.t ELSE me.bound,
                !.t = me.t \div 2])
       ELSE \E r \in {MinMax(i, i + me.bound * me.d)} :
                SetNode(i, [NodeLocals EXCEPT
                    !.pc = "split", !.first = r[1], !.last = r[2],
                    !.common = common_prefix(builder.codes, r[1], r[2]),
                    !.split = r[1], !.step = r[2] - r[1]])

\* One pass through the body of the loop of find_split.
Split(i, me) ==
    /\ me.pc = "split"
    /\ \E step \in {HalveStep(me.step)} :
           SetNode(i, [me EXCEPT
               !.step = step,
               !.split = IF me.split + step < me.last
                            /\ common_prefix(builder.codes, me.first, me.split + step)
                               > me.common
                         THEN me.split + step ELSE me.split,
               !.pc = IF step <= 1 THEN "link" ELSE "split"])

\* The child assignments and has_parent stores of the iteration for node i.
Link(i, me) ==
    /\ me.pc = "link"
    /\ \E t \in {SetChildren([internals |-> builder.internals,
                              has_parent |-> builder.has_parent],
                             i, me.first, me.last, me.split)} :
           builder' = [builder EXCEPT !.node[i + 1] = [NodeLocals EXCEPT !.pc = "done"],
                                      !.internals = t.internals,
                                      !.has_parent = t.has_parent,
                                      !.linked = Append(@, i)]
    /\ UNCHANGED <<world_size, object_guids, arena, arena_root, bounding_boxes, last_build,
                   result, session>>

TopoDirection == \E i \in 0..(MaxCodes - 2) :
                     i + 1 <= Len(builder.node) /\ Runnable(i) /\ Direction(i, builder.node[i + 1])
TopoDouble == \E i \in 0..(MaxCodes - 2) :
                  i + 1 <= Len(builder.node) /\ Runnable(i) /\ Double(i, builder.node[i + 1])
TopoBisect == \E i \in 0..(MaxCodes - 2) :
                  i + 1 <= Len(builder.node) /\ Runnable(i) /\ Bisect(i, builder.node[i + 1])
TopoSplit == \E i \in 0..(MaxCodes - 2) :
                 i + 1 <= Len(builder.node) /\ Runnable(i) /\ Split(i, builder.node[i + 1])
TopoLink == \E i \in 0..(MaxCodes - 2) :
                i + 1 <= Len(builder.node) /\ Runnable(i) /\ Link(i, builder.node[i + 1])

\* The search for the root once every iteration has run.
TopoFindRoot ==
    /\ builder.pc = "topology"
    /\ \A k \in 1..Len(builder.node) : builder.node[k].pc = "done"
    /\ builder' = [builder EXCEPT !.pc = "done", !.root_idx = FindRoot(builder.has_parent)]
    /\ UNCHANGED <<world_size, object_guids, arena, arena_root, bounding_boxes, last_build,
                   result, session>>

NextTopology ==
    \/ TopoDirection
    \/ TopoDouble
    \/ TopoBisect
    \/ TopoSplit
    \/ TopoLink
    \/ TopoFindRoot

\* The loop is code that runs: it keeps taking steps while it has one to take.
SpecTopology == InitTopology /\ [][NextTopology]_vars /\ WF_vars(NextTopology)

SpecTopologyAnyOrder == InitTopologyAnyOrder /\ [][NextTopology]_vars /\ WF_vars(NextTopology)

\* ---------------------------------------------------------------- Session
\* The fields of a Session that get_collisions and ray_cast read and write.  A
\* geometry is kept as its guid and the box compute_bounding_box returns for it
\* (its bounding box inflated by the tolerance).  lookup is a function from the
\* guids present to their geometry; a HashMap yields its entries in an order
\* the program does not choose, so every iteration over it takes some order.
\* The graph keeps its vertices and, per edge, the two ends and the attribute.
\* history is not a field of the program: it records whether a ray_cast has
\* returned since the last call that changed the objects, and the guids
\* removed while the cached ray BVH listed them and not added since.
None == [kind |-> "None"]

NoHistory == [ray_cast |-> FALSE, stale |-> {}]

NewSession ==
    [name |-> "my_session", lookup |-> <<>>, graph |-> [vertices |-> {}, edges |-> {}],
     bvh |-> new, cached_ray_bvh |-> None, cached_guids |-> <<>>, cached_boxes |-> <<>>,
     bvh_cache_dirty |-> TRUE, history |-> NoHistory]

compute_bounding_box(geometry) == geometry.bbox

Guids(s) == DOMAIN s.lookup

\* The orders in which an iteration over the lookup table can yield its keys.
Orders(D) ==
    {o \in [1..Cardinality(D) -> D] : \A k, m \in 1..Cardinality(D) : k # m => o[k] # o[m]}

Insert(lookup, guid, geometry) ==
    [g \in DOMAIN lookup \cup {guid} |-> IF g = guid THEN geometry ELSE lookup[g]]

Remove(lookup, guid) == [g \in DOMAIN lookup \ {guid} |-> lookup[g]]

\* Graph::add_node, has_edge, add_edge and remove_node.
add_node(graph, key) == [graph EXCEPT !.vertices = @ \cup {key}]

has_edge(graph, u, v) == \E e \in graph.edges : e.ends = {u, v}

add_edge(graph, u, v, attribute) ==
    [vertices |-> graph.vertices \cup {u, v},
     edges |-> IF has_edge(graph, u, v) THEN graph.edges
               ELSE graph.edges \cup {[ends |-> {u, v}, attribute |-> attribute]}]

remove_node(graph, key) ==
    [vertices |-> graph.vertices \ {key},
     edges |-> {e \in graph.edges : key \notin e.ends}]

cache_geometry_aabb(s, guid, geometry) ==
    [s EXCEPT !.cached_boxes = Append(@, compute_bounding_box(geometry)),
              !.cached_guids = Append(@, guid),
              !.bvh_cache_dirty = TRUE]

invalidate_bvh_cache(s) == [s EXCEPT !.bvh_cache_dirty = TRUE]

\* add_point, add_line, ..., add_arrow: the lookup entry, the cached box, the
\* graph node.
add_object(s, geometry) ==
    [cache_geometry_aabb([s EXCEPT !.lookup = Insert(@, geometry.guid, geometry)],
                         geometry.guid, geometry)
        EXCEPT !.graph = add_node(@, geometry.guid)]

\* remove_object that leaves the lookup entry in place.
RemoveObjectKeepsLookup(s, guid) ==
    IF guid \notin Guids(s) THEN s
    ELSE [invalidate_bvh_cache(s) EXCEPT !.graph = remove_node(@, guid)]

\* remove_object for a guid; it returns true when the guid was in lookup.
remove_object(s, guid) ==
    IF guid \notin Guids(s) THEN s
    ELSE [invalidate_bvh_cache([s EXCEPT !.lookup = Remove(@, guid)])
             EXCEPT !.graph = remove_node(@, guid)]

\* jsonload: the lookup table rebuilt from the objects of the document, the
\* last object of a guid kept; nothing cached.
RECURSIVE LookupOf(_)
LookupOf(objects) ==
    IF objects = <<>> THEN <<>>
    ELSE Insert(LookupOf(Pop(objects)), Top(objects).guid, Top(objects))

jsonload(objects) ==
    [NewSession EXCEPT !.lookup = LookupOf(objects),
                       !.graph = [vertices |-> {objects[k].guid : k \in 1..Len(objects)},
                                  edges |-> {}]]

\* The collision edges of get_collisions, added pair after pair.
RECURSIVE AddCollisionEdges(_, _)
AddCollisionEdges(graph, pairs) ==
    IF pairs = <<>> THEN graph
    ELSE AddCollisionEdges(add_edge(graph, pairs[1][1], pairs[1][2], "bvh_collision"),
                           Tail(pairs))

GetCollisionsPairs(s, bvh, collision_pairs) ==
    [session |-> [s EXCEPT !.bvh = bvh, !.graph = AddCollisionEdges(@, collision_pairs)],
     pairs |-> collision_pairs]

GetCollisionsBuilt(s, bvh, boxes) ==
    GetCollisionsPairs(s, bvh, check_all_collisions_guids(bvh, boxes))

\* get_collisions with the lookup table yielding its entries in order.
get_collisions(s, order) ==
    IF order = <<>> THEN [session |-> s, pairs |-> <<>>]
    ELSE GetCollisionsBuilt(
             s,
             build_with_guids(s.bvh,
                 Tuple([k \in 1..Len(order) |->
                           <<compute_bounding_box(s.lookup[order[k]]), order[k]>>])),
             Tuple([k \in 1..Len(order) |-> compute_bounding_box(s.lookup[order[k]])]))

\* rebuild_ray_bvh_cache: the cached boxes collected again when their number
\* is not the number of lookup entries, then the BVH built from them.
Recollect(s, order) ==
    IF Len(s.cached_boxes) # Cardinality(Guids(s))
    THEN [s EXCEPT !.cached_boxes = Tuple([k \in 1..Len(order) |->
                                              compute_bounding_box(s.lookup[order[k]])]),
                   !.cached_guids = order]
    ELSE s

RebuildFrom(s) ==
    IF s.cached_boxes # <<>>
    THEN [s EXCEPT !.cached_ray_bvh =
                       from_boxes(s.cached_boxes, compute_world_size(s.cached_boxes))]
    ELSE [s EXCEPT !.cached_ray_bvh = None]

rebuild_ray_bvh_cache(s, order) == RebuildFrom(Recollect(s, order))

\* The cache test of ray_cast.
CheckCache(s, order) ==
    IF s.bvh_cache_dirty \/ s.cached_ray_bvh = None
    THEN [rebuild_ray_bvh_cache(s, order) EXCEPT !.bvh_cache_dirty = FALSE]
    ELSE s

\* The guids of the candidates whose geometry the ray meets: a candidate
\* outside cached_guids or without a lookup entry is passed over.  The test
\* against the geometry is the slab test on its box.
HitsAll(s, origin, direction, candidates) ==
    {s.cached_guids[candidates[k] + 1] :
        k \in {m \in 1..Len(candidates) :
                  /\ candidates[m] < Len(s.cached_guids)
                  /\ s.cached_guids[candidates[m] + 1] \in Guids(s)
                  /\ RayHits(origin, direction,
                             from_bbox(s.lookup[s.cached_guids[candidates[m] + 1]].bbox))}}

RayCastCached(s, origin, direction) ==
    IF s.cached_ray_bvh = None
    THEN [session |-> s, hits_all |-> {}, queried |-> FALSE]
    ELSE [session |-> s,
          hits_all |-> HitsAll(s, origin, direction,
                               ray_cast(s.cached_ray_bvh, origin, direction, <<>>,
                                        TRUE).candidate_leaf_ids),
          queried |-> TRUE]

\* Session::ray_cast for a direction of length 0 or 1, up to the filter on the
\* distance; queried tells whether the cached BVH was traversed.
session_ray_cast(s, origin, direction, order) ==
    IF direction = <<0, 0, 0>>
    THEN [session |-> s, hits_all |-> {}, queried |-> FALSE]
    ELSE RayCastCached(CheckCache(s, order), origin, direction)

\* The hits left by the filter on the distance: the closest ones, at least one
\* when there is a hit.  Distances are not kept, so every such part is taken.
Closest(hits_all) == {h \in SUBSET hits_all : h = {} => hits_all = {}}

\* ------------------------------------------------------- calls on a Session
MaxCached == 3

SessionGuids == {"a", "b"}

\* The objects a caller adds; two of them carry the guid "a".
SessionObjects ==
    {[guid |-> "a", bbox |-> BoundingBox(0, 0, 0, 2, 2, 2)],
     [guid |-> "b", bbox |-> BoundingBox(2, 0, 0, 2, 2, 2)],
     [guid |-> "a", bbox |-> BoundingBox(0, 0, 6, 2, 2, 2)]}

\* The object lists of the documents a caller loads.
JsonObjects == UNION {[1..n -> SessionObjects] : n \in 0..2}

InitSession ==
    /\ world_size = new.world_size
    /\ object_guids = new.object_guids
    /\ arena = new.arena
    /\ arena_root = new.arena_root
    /\ bounding_boxes = <<>>
    /\ last_build = [op |-> "new", boxes |-> <<>>, had_nodes |-> FALSE]
    /\ result = NoResult
    /\ builder = NoBuilder
    /\ session = NewSession

SessionBecomes(s, r) ==
    /\ session' = s
    /\ result' = r
    /\ UNCHANGED <<world_size, object_guids, arena, arena_root, bounding_boxes, last_build,
                   builder>>

\* add_point, add_bbox, ...: the cached lists grow with every call.
AddObject ==
    /\ result = NoResult
    /\ Len(session.cached_guids) < MaxCached
    /\ \E geometry \in SessionObjects :
           SessionBecomes([add_object(session, geometry) EXCEPT
                              !.history = [ray_cast |-> FALSE,
                                           stale |-> @.stale \ {geometry.guid}]],
                          [op |-> "add", guid |-> geometry.guid])

RemoveObject ==
    /\ result = NoResult
    /\ \E guid \in SessionGuids :
           SessionBecomes(
               [remove_object(session, guid) EXCEPT
                   !.history =
                       IF guid \in Guids(session)
                       THEN [ray_cast |-> FALSE,
                             stale |-> IF session.cached_ray_bvh # None
                                          /\ \E k \in 1..Len(session.cached_guids) :
                                                    session.cached_guids[k] = guid
                                       THEN @.stale \cup {guid} ELSE @.stale]
                       ELSE @],
               [op |-> "remove_object", guid |-> guid, removed |-> guid \in Guids(session)])

AddRelationship ==
    /\ result = NoResult
    /\ \E u, v \in Guids(session) :
           /\ u # v
           /\ SessionBecomes([session EXCEPT !.graph = add_edge(@, u, v, "relationship")],
                             [op |-> "add_relationship", from_guid |-> u, to_guid |-> v])

JsonLoad ==
    /\ result = NoResult
    /\ \E objects \in JsonObjects :
           SessionBecomes(jsonload(objects), [op |-> "jsonload"])

GetCollisions ==
    /\ result = NoResult
    /\ \E order \in Orders(Guids(session)) :
       \E r \in {get_collisions(session, order)} :
           SessionBecomes(r.session,
                          [op |-> "get_collisions", order |-> order, pairs |-> r.pairs])

SessionRayCast ==
    /\ result = NoResult
    /\ \E ray \in Rays, order \in Orders(Guids(session)) :
       \E r \in {session_ray_cast(session, ray[1], ray[2], order)} :
       \E hits \in Closest(r.hits_all) :
           SessionBecomes(
               [r.session EXCEPT !.history.ray_cast = TRUE],
               [op |-> "session_ray_cast", direction |-> ray[2], hits |-> hits,
                queried |-> r.queried,
                rebuilt |-> /\ ray[2] # <<0, 0, 0>>
                            /\ session.bvh_cache_dirty \/ session.cached_ray_bvh = None
                            /\ r.session.cached_boxes # <<>>,
                follows_ray_cast |-> session.history.ray_cast])

SessionDone ==
    /\ result # NoResult
    /\ SessionBecomes(session, NoResult)

\* A caller that adds, removes, relates and asks for the collisions.
NextCollisions ==
    \/ AddObject
    \/ RemoveObject
    \/ AddRelationship
    \/ GetCollisions
    \/ SessionDone

SpecCollisions == InitSession /\ [][NextCollisions]_vars

\* A caller that adds, removes, loads and casts rays.
NextRayCast ==
    \/ AddObject
    \/ RemoveObject
    \/ JsonLoad
    \/ SessionRayCast
    \/ SessionDone

SpecRayCast == InitSession /\ [][NextRayCast]_vars

\* ------------------------------------------------------------- properties
BuildOps == {"build", "build_with_guids", "from_boxes"}

\* The index was last built from the array B.
BuiltFrom(B) == last_build.op \in BuildOps /\ last_build.boxes = B

Range(seq) == {seq[k] : k \in 1..Len(seq)}
NoRepeat(seq) == \A k, m \in 1..Len(seq) : k # m => seq[k] # seq[m]
Ordinals(B) == 0..(Len(B) - 1)

\* Closed-interval overlap of two caller boxes on all three axes.
Overlap(b1, b2) ==
    \A k \in 1..3 : Abs(b1.center[k] - b2.center[k]) <= b1.half_size[k] + b2.half_size[k]

BruteForce(B) ==
    {p \in Ordinals(B) \X Ordinals(B) : p[1] < p[2] /\ Overlap(B[p[1] + 1], B[p[2] + 1])}

Lo(a) == <<a.cx - a.hx, a.cy - a.hy, a.cz - a.hz>>
Hi(a) == <<a.cx + a.hx, a.cy + a.hy, a.cz + a.hz>>

IsLeaf(n) == n.object_id >= 0
LeafIds == {arena[k].object_id : k \in {m \in 1..Len(arena) : IsLeaf(arena[m])}}

\* C1: for an index built from the caller's array B, the pairs that
\* check_all_collisions(B) returns are exactly the pairs (i, j), i < j, of
\* ordinals of B whose boxes overlap on all three axes (closed intervals).
C1_PairsEqualBruteForce ==
    (result.op = "check_all_collisions" /\ BuiltFrom(bounding_boxes))
    => Range(result.all_collisions) = BruteForce(bounding_boxes)

\* C2: every pair check_all_collisions returns has its smaller ordinal first and
\* no unordered pair of ordinals is returned twice; no unordered pair of nodes is
\* popped twice, and a popped pair never has the later node first, so a node
\* paired with itself never yields (right, left).
C2_PairsOrderedOnce ==
    result.op = "check_all_collisions"
    => /\ \A k \in 1..Len(result.all_collisions) :
              result.all_collisions[k][1] < result.all_collisions[k][2]
       /\ \A k, m \in 1..Len(result.all_collisions) :
              k # m => {result.all_collisions[k][1], result.all_collisions[k][2]}
                       # {result.all_collisions[m][1], result.all_collisions[m][2]}
       /\ \A k \in 1..Len(result.popped) : result.popped[k][1] <= result.popped[k][2]
       /\ NoRepeat(result.popped)

\* A call that returned two pairs or more after expanding the root against itself.
C2_Witness ==
    /\ result.op = "check_all_collisions"
    /\ Len(result.all_collisions) >= 2
    /\ Len(result.popped) >= 4

\* C3: the second result of check_all_collisions is strictly ascending and holds
\* exactly the ordinals that are a component of some returned pair.
C3_IndicesSortedAndExact ==
    result.op = "check_all_collisions"
    => /\ \A k \in 1..(Len(result.colliding_indices) - 1) :
              result.colliding_indices[k] < result.colliding_indices[k + 1]
       /\ Range(result.colliding_indices)
          = UNION {{p[1], p[2]} : p \in Range(result.all_collisions)}

\* A call that listed two ordinals or more and left an ordinal of the array out.
C3_Witness ==
    /\ result.op = "check_all_collisions"
    /\ Len(result.colliding_indices) >= 2
    /\ Len(result.colliding_indices) < Len(bounding_boxes)

\* C4: for an index built from the caller's array B and an ordinal i of B,
\* find_collisions(i, B[i], B) returns exactly the ordinals j # i whose box
\* overlaps B[i], each once.
C4_FindCollisionsExact ==
    (/\ result.op = "find_collisions"
     /\ BuiltFrom(bounding_boxes)
     /\ result.object_id < Len(bounding_boxes)
     /\ result.query_bbox = bounding_boxes[result.object_id + 1])
    => /\ Range(result.collisions)
          = {j \in Ordinals(bounding_boxes) \ {result.object_id} :
                Overlap(bounding_boxes[j + 1], result.query_bbox)}
       /\ NoRepeat(result.collisions)

\* A query with the own box that found a neighbour and turned away at a node
\* whose box the query box does not overlap.
C4_Witness ==
    /\ result.op = "find_collisions"
    /\ BuiltFrom(bounding_boxes)
    /\ result.object_id < Len(bounding_boxes)
    /\ result.query_bbox = bounding_boxes[result.object_id + 1]
    /\ result.collisions # <<>>
    /\ \E k \in 1..Len(result.popped) :
           ~intersects(from_bbox(result.query_bbox), arena[result.popped[k] + 1].aabb)

\* C5: whatever the index, the query ordinal, the query box and the caller's
\* array, the list find_collisions returns never holds the query ordinal.
C5_NeverReportsSelf ==
    result.op = "find_collisions" => result.object_id \notin Range(result.collisions)

\* A query that popped the leaf of its own ordinal, whose box it overlaps, and
\* reported another ordinal.
C5_Witness ==
    /\ result.op = "find_collisions"
    /\ result.object_id < Len(bounding_boxes)
    /\ Overlap(result.query_bbox, bounding_boxes[result.object_id + 1])
    /\ \E k \in 1..Len(result.popped) :
           arena[result.popped[k] + 1].object_id = result.object_id
    /\ result.collisions # <<>>

\* C6: after a build on N >= 2 boxes the arena holds 2N-1 nodes, N leaves and
\* N-1 internal nodes, and the leaves' object_id values are exactly 0..N-1.
C6_ArenaCounts ==
    (last_build.op \in BuildOps /\ Len(last_build.boxes) >= 2)
    => /\ Len(arena) = 2 * Len(last_build.boxes) - 1
       /\ Cardinality({k \in 1..Len(arena) : IsLeaf(arena[k])}) = Len(last_build.boxes)
       /\ Cardinality({k \in 1..Len(arena) : arena[k].object_id = -1})
          = Len(last_build.boxes) - 1
       /\ LeafIds = Ordinals(last_build.boxes)

\* A build on three boxes or more, two of them equal, so of equal Morton code.
C6_Witness ==
    /\ last_build.op \in BuildOps
    /\ Len(last_build.boxes) >= 3
    /\ \E i, j \in 1..Len(last_build.boxes) :
           i # j /\ last_build.boxes[i] = last_build.boxes[j]
    /\ Len(arena) = 2 * Len(last_build.boxes) - 1

\* C7: in the arena of a build on a non-empty array, the box of an internal node
\* is the per-axis minimum of its children's minima and maximum of their maxima,
\* and the box of a leaf is the caller's box of its object_id.
C7_TightBoxes ==
    (last_build.op \in BuildOps /\ last_build.boxes # <<>>)
    => \A k \in 1..Len(arena) :
          IF IsLeaf(arena[k])
          THEN arena[k].aabb = from_bbox(last_build.boxes[arena[k].object_id + 1])
          ELSE /\ arena[k].left \in 0..(Len(arena) - 1)
               /\ arena[k].right \in 0..(Len(arena) - 1)
               /\ \A x \in 1..3 :
                      /\ Lo(arena[k].aabb)[x]
                         = Min2(Lo(arena[arena[k].left + 1].aabb)[x],
                                Lo(arena[arena[k].right + 1].aabb)[x])
                      /\ Hi(arena[k].aabb)[x]
                         = Max2(Hi(arena[arena[k].left + 1].aabb)[x],
                                Hi(arena[arena[k].right + 1].aabb)[x])

\* An arena with an internal node below the root whose box differs from the
\* boxes of both of its children.
C7_Witness ==
    /\ last_build.op \in BuildOps
    /\ Len(arena) >= 5
    /\ \E k \in 2..Len(arena) :
           /\ ~IsLeaf(arena[k])
           /\ arena[k].aabb # arena[arena[k].left + 1].aabb
           /\ arena[k].aabb # arena[arena[k].right + 1].aabb

\* The <<node, side>> places that hold the arena index c.
ParentsOf(c) ==
    {p \in (1..Len(arena)) \X {"left", "right"} :
        /\ ~IsLeaf(arena[p[1]])
        /\ (IF p[2] = "left" THEN arena[p[1]].left ELSE arena[p[1]].right) = c}

RECURSIVE ReachableFrom(_)
ReachableFrom(S) ==
    IF \A c \in S : IsLeaf(arena[c + 1]) \/ {arena[c + 1].left, arena[c + 1].right} \subseteq S
    THEN S
    ELSE ReachableFrom(S \cup UNION {{arena[c + 1].left, arena[c + 1].right} :
                                        c \in {d \in S : ~IsLeaf(arena[d + 1])}})

\* C8: every arena node is a leaf (left = right = -1, object_id >= 0) or an
\* internal node (object_id = -1, both children indices of the arena); the root
\* is no node's child, every other node is the child of exactly one internal
\* node at one side, and every node is reachable from the root.
C8_FullBinaryTree ==
    arena # <<>>
    => /\ \A k \in 1..Len(arena) :
              \/ arena[k].left = -1 /\ arena[k].right = -1 /\ arena[k].object_id >= 0
              \/ /\ arena[k].object_id = -1
                 /\ arena[k].left \in 0..(Len(arena) - 1)
                 /\ arena[k].right \in 0..(Len(arena) - 1)
       /\ arena_root \in 0..(Len(arena) - 1)
       /\ ParentsOf(arena_root) = {}
       /\ \A c \in (0..(Len(arena) - 1)) \ {arena_root} : Cardinality(ParentsOf(c)) = 1
       /\ ReachableFrom({arena_root}) = 0..(Len(arena) - 1)

\* An arena of five nodes or more with an internal node below the root.
C8_Witness ==
    /\ Len(arena) >= 5
    /\ \E k \in 1..Len(arena) : k - 1 # arena_root /\ ~IsLeaf(arena[k])

\* What the queries return on an index without nodes.
EmptyResult ==
    /\ result.op = "find_collisions" => result.collisions = <<>> /\ result.check_count = 0
    /\ result.op = "check_all_collisions"
       => /\ result.all_collisions = <<>>
          /\ result.colliding_indices = <<>>
          /\ result.total_checks = 0
    /\ result.op = "check_all_collisions_guids" => result.pairs = <<>>
    /\ result.op = "ray_cast" => ~result.hit /\ result.candidate_leaf_ids = <<>>

\* C9: when the last build call was build on an empty list, whatever the builds
\* before it, the arena is empty, arena_root is -1 and every query returns an
\* empty result with zero checks.
C9_EmptyBuildClears ==
    (last_build.op \in {"build", "from_boxes"} /\ last_build.boxes = <<>>)
    => arena = <<>> /\ arena_root = -1 /\ EmptyResult

\* A ray cast with a used buffer after build on an empty list replaced an arena
\* that had nodes.
C9_Witness ==
    /\ last_build.op = "build"
    /\ last_build.boxes = <<>>
    /\ last_build.had_nodes
    /\ result.op = "ray_cast"
    /\ result.buffer # <<>>

\* C10: when the last build call was build_with_guids on an empty list and the
\* arena had nodes before it, the arena is empty, arena_root is -1 and every
\* query returns an empty result.
C10_BuildWithGuidsReplacesArena ==
    (/\ last_build.op = "build_with_guids"
     /\ last_build.boxes = <<>>
     /\ last_build.had_nodes)
    => arena = <<>> /\ arena_root = -1 /\ EmptyResult

\* C11: when the last build call was build, without identifiers, the index holds
\* no identifier of an earlier build_with_guids, and check_all_collisions_guids
\* returns no pair of such identifiers.
C11_BuildReplacesGuids ==
    last_build.op = "build"
    => /\ object_guids = <<>>
       /\ result.op = "check_all_collisions_guids" => result.pairs = <<>>

\* C12: after a build on exactly one box the arena is one leaf with object_id 0
\* and the caller's box, arena_root is 0, find_collisions(0, that box, boxes)
\* returns no ordinal and check_all_collisions returns no pair.
C12_SingleBox ==
    (last_build.op \in BuildOps /\ Len(last_build.boxes) = 1)
    => /\ arena = <<[left |-> -1, right |-> -1, object_id |-> 0,
                     aabb |-> from_bbox(last_build.boxes[1])]>>
       /\ arena_root = 0
       /\ (/\ result.op = "find_collisions"
           /\ result.object_id = 0
           /\ result.query_bbox = last_build.boxes[1])
          => result.collisions = <<>>
       /\ result.op = "check_all_collisions" => result.all_collisions = <<>>

\* A query of the single box against itself that visited the one leaf.
C12_Witness ==
    /\ last_build.op \in BuildOps
    /\ Len(last_build.boxes) = 1
    /\ bounding_boxes = last_build.boxes
    /\ result.op = "find_collisions"
    /\ result.object_id = 0
    /\ result.query_bbox = last_build.boxes[1]
    /\ result.check_count = 1

\* C13: find_collisions returns a result list only for a query ordinal below the
\* object count of the most recent build; a larger ordinal ends in a panic, and
\* no result is returned.
C13_OutOfRangeOrdinalPanics ==
    (result.op = "find_collisions" /\ last_build.op \in BuildOps)
    => result.object_id < Len(last_build.boxes)

SameArena(s) == arena = s.arena /\ arena_root = s.arena_root

\* C14: the arena after a build on the array B with world size W is the arena
\* that a build on B makes of a new index of world size W: a repeated build
\* yields the same arena, whatever the index held before the call.  The queries
\* leave the arena alone, so it is compared when the caller holds no query result.
C14_BuildDeterministic ==
    (/\ result = NoResult
     /\ last_build.op \in BuildOps
     /\ ~(last_build.op = "build_with_guids" /\ last_build.boxes = <<>>))
    => SameArena(build([new EXCEPT !.world_size = world_size], last_build.boxes))

\* A build on two boxes or more of an index whose arena had nodes.
C14_Witness ==
    /\ last_build.op = "build"
    /\ last_build.had_nodes
    /\ Len(last_build.boxes) >= 2
    /\ Len(arena) >= 3

\* C19: after build or build_with_guids on a non-empty array the world size of
\* the index, which the Morton keys were computed with, is compute_world_size of
\* that array.
C19_WorldSizeComputed ==
    (last_build.op \in {"build", "build_with_guids"} /\ last_build.boxes # <<>>)
    => world_size = compute_world_size(last_build.boxes)

\* The explicit interleave: bit k of v goes to bit 3k + lane.
Interleave(v, lane) == {3 * k + lane : k \in ToBits(v)}

\* C15: calculate_morton_code returns a value below 2^30; a position with all
\* three coordinates <= -W/2 yields 0 and one with all three >= W/2 yields
\* 0x3FFFFFFF.
C15_MortonBounds ==
    result.op = "calculate_morton_code"
    => /\ result.code \subseteq 0..29
       /\ (\A c \in {result.x, result.y, result.z} : 20 * c <= -result.world_size)
          => result.code = {}
       /\ (\A c \in {result.x, result.y, result.z} : 20 * c >= result.world_size)
          => result.code = 0..29

\* A position outside the world cube beyond its upper corner, clamped to it.
C15_Witness ==
    /\ result.op = "calculate_morton_code"
    /\ \A c \in {result.x, result.y, result.z} : 20 * c > result.world_size
    /\ result.code = 0..29

\* C16: for a 10-bit v, expand_bits(v) has bit 3k equal to bit k of v and every
\* other bit zero, and the Morton code has bit 3k, 3k+1 and 3k+2 equal to bit k
\* of the quantized x, y and z.
C16_ExpandBitsInterleaves ==
    /\ result.op = "expand_bits" => result.bits = Interleave(result.v, 0)
    /\ result.op = "calculate_morton_code"
       => result.code = Interleave(Quantize(result.x, result.world_size), 0)
                        \cup Interleave(Quantize(result.y, result.world_size), 1)
                        \cup Interleave(Quantize(result.z, result.world_size), 2)

\* The value with all ten bits set, spread over bits 0, 3, ..., 27.
C16_Witness ==
    /\ result.op = "expand_bits"
    /\ ToBits(result.v) = 0..9
    /\ result.bits = {3 * k : k \in 0..9}

\* C17: the three counting-sort passes return a permutation of the object list
\* in ascending order of Morton code, objects of equal code in ascending order
\* of ordinal.
C17_RadixSortStable ==
    result.op = "radix_sort"
    => /\ Len(result.sorted) = Len(result.objects)
       /\ Range(result.sorted) = Range(result.objects)
       /\ \A k, m \in 1..Len(result.sorted) :
              k < m => \/ FromBits(result.sorted[k].morton_code)
                          < FromBits(result.sorted[m].morton_code)
                       \/ /\ result.sorted[k].morton_code = result.sorted[m].morton_code
                          /\ result.sorted[k].id < result.sorted[m].id

\* A list of three objects or more, two of equal code, that the sort reordered.
C17_Witness ==
    /\ result.op = "radix_sort"
    /\ Len(result.objects) >= 3
    /\ result.sorted # result.objects
    /\ \E k, m \in 1..Len(result.objects) :
           k # m /\ result.objects[k].morton_code = result.objects[m].morton_code

\* The largest absolute value of a corner coordinate of the boxes.
MaxAbsCorner(boxes) ==
    SetMax({Abs(boxes[i].center[k] + sign * boxes[i].half_size[k]) :
               i \in 1..Len(boxes), k \in 1..3, sign \in {-1, 1}})

\* C18: compute_world_size returns 1000.0 for an empty list and otherwise
\* max(2.2 * m, 10.0), m the largest absolute corner coordinate; it is at least
\* 10.0.
C18_WorldSizeFormula ==
    result.op = "compute_world_size"
    => /\ result.world_size
          = (IF result.boxes = <<>> THEN 10000
             ELSE Max2(22 * MaxAbsCorner(result.boxes), 100))
       /\ result.world_size >= 100

\* A list whose largest corner coordinate is that of a negative corner and
\* whose world size is above the minimum.
C18_Witness ==
    /\ result.op = "compute_world_size"
    /\ result.boxes # <<>>
    /\ result.world_size > 100
    /\ \A i \in 1..Len(result.boxes), k \in 1..3 :
           10 * (result.boxes[i].center[k] + result.boxes[i].half_size[k])
               < result.world_size \div 3

\* The ordinals of the arena's leaves whose box passes the slab test with
\* tmax >= 0.
LeavesHit(origin, direction) ==
    {arena[k].object_id :
        k \in {m \in 1..Len(arena) :
                  IsLeaf(arena[m]) /\ RayHits(origin, direction, arena[m].aabb)}}

\* C20: ray_cast leaves in the buffer exactly the ordinals of the leaves whose
\* box passes the slab test with tmax >= 0, each once, whatever the buffer held;
\* it returns true exactly when the buffer is not empty, and find_all makes no
\* difference.
C20_RayCastExact ==
    result.op = "ray_cast"
    => /\ Range(result.candidate_leaf_ids) = LeavesHit(result.origin, result.direction)
       /\ NoRepeat(result.candidate_leaf_ids)
       /\ result.hit = (result.candidate_leaf_ids # <<>>)
       /\ result.candidate_leaf_ids
          = ray_cast(Self, result.origin, result.direction, result.buffer,
                     ~result.find_all).candidate_leaf_ids

\* C21: after build_with_guids on an array, check_all_collisions_guids on the
\* same array returns, position for position, the identifiers of the pairs
\* check_all_collisions returns on it: the same length, the same order, and no
\* pair dropped.
C21_GuidPairsMirrorIndexPairs ==
    (result.op = "check_all_collisions_guids" /\ last_build.op = "build_with_guids"
     /\ last_build.boxes = bounding_boxes)
    => \E all \in {check_all_collisions(Self, bounding_boxes).all_collisions} :
           /\ Len(result.pairs) = Len(all)
           /\ \A k \in 1..Len(all) :
                  result.pairs[k] = <<Guid(all[k][1]), Guid(all[k][2])>>

C21_Witness ==
    /\ result.op = "check_all_collisions_guids"
    /\ last_build.op = "build_with_guids"
    /\ last_build.boxes = bounding_boxes
    /\ Len(bounding_boxes) = MaxBoxes
    /\ Len(result.pairs) >= 2

\* C25: a traversal visits the tree, never a node twice: find_collisions and
\* ray_cast pop each arena node at most once, so the check count of
\* find_collisions is at most the arena length, and check_all_collisions pops
\* each ordered pair of nodes at most once.
C25_TraversalsBounded ==
    /\ result.op = "find_collisions"
       => /\ NoRepeat(result.popped)
          /\ Range(result.popped) \subseteq 0..(Len(arena) - 1)
          /\ result.check_count <= Len(arena)
    /\ result.op = "ray_cast"
       => /\ NoRepeat(result.popped)
          /\ Len(result.popped) <= Len(arena)
    /\ result.op = "check_all_collisions"
       => /\ NoRepeat(result.popped)
          /\ Len(result.popped) <= Len(arena) * Len(arena)

\* A query box that meets every node of a five-node tree: every node is popped.
C25_Witness ==
    /\ result.op = "find_collisions"
    /\ Len(arena) = 2 * MaxBoxes - 1
    /\ result.check_count = Len(arena)

\* Closed-interval overlap of two node boxes on all three axes.
NodesMeet(a, b) == \A k \in 1..3 : Lo(a)[k] <= Hi(b)[k] /\ Lo(b)[k] <= Hi(a)[k]

\* The popped node pairs of a check_all_collisions call whose boxes overlap.
PoppedOverlapping ==
    {k \in 1..Len(result.popped) :
        NodesMeet(arena[result.popped[k][1] + 1].aabb, arena[result.popped[k][2] + 1].aabb)}

\* C26: the check count of check_all_collisions is the number of popped node
\* pairs whose boxes overlap, a pruned pair not counted; the check count of
\* find_collisions is the number of popped nodes, pruned ones included; on an
\* index that holds nodes both counts are at least 1, also when no two boxes
\* overlap.
C26_CheckCounts ==
    /\ result.op = "check_all_collisions"
       => /\ result.total_checks = Cardinality(PoppedOverlapping)
          /\ (arena # <<>> /\ arena_root >= 0) => result.total_checks >= 1
    /\ result.op = "find_collisions"
       => /\ result.check_count = Len(result.popped)
          /\ (arena # <<>> /\ arena_root >= 0) => result.check_count >= 1

\* Two boxes apart: nothing is reported, the root pair is counted and a pruned
\* pair is not.
C26_Witness ==
    /\ result.op = "check_all_collisions"
    /\ BuiltFrom(bounding_boxes)
    /\ Len(bounding_boxes) >= 2
    /\ BruteForce(bounding_boxes) = {}
    /\ result.all_collisions = <<>>
    /\ result.total_checks >= 1
    /\ result.total_checks < Len(result.popped)

\* The ordinals find_collisions reports for the same query on the array the
\* index was built from.
MatchesAtBuild ==
    Range(find_collisions(Self, result.object_id, result.query_bbox,
                          last_build.boxes).collisions)

\* C29: find_collisions reports ordinal j only if the query box overlaps the
\* box of a leaf with ordinal j as captured by the build and the caller's
\* current box j; a leaf whose ordinal is outside the caller's array is skipped;
\* a changed or shorter array only removes matches.
C29_StaleArrayOnlyRemoves ==
    (result.op = "find_collisions" /\ last_build.op \in BuildOps)
    => \A j \in Range(result.collisions) :
           /\ j < Len(bounding_boxes)
           /\ Overlap(result.query_bbox, bounding_boxes[j + 1])
           /\ \E m \in 1..Len(arena) :
                  /\ arena[m].object_id = j
                  /\ NodesMeet(from_bbox(result.query_bbox), arena[m].aabb)
           /\ j \in MatchesAtBuild

\* A query on an array of the built length with a moved box: a match of the
\* build-time array is gone, another one is kept.
C29_Witness ==
    /\ result.op = "find_collisions"
    /\ last_build.op \in BuildOps
    /\ Len(bounding_boxes) = Len(last_build.boxes)
    /\ bounding_boxes # last_build.boxes
    /\ result.collisions # <<>>
    /\ MatchesAtBuild \ Range(result.collisions) # {}

\* C24: the topology phase of build finishes for every sorted code array of
\* two or more codes, equal codes included: the doubling loop and the halving
\* loop of determine_range and the loop of find_split each exit, for every
\* internal node, and the root search follows.
C24_TopologyTerminates == <>(builder.pc = "done")

\* Three or more boxes of one Morton code, all linked.
C24_Witness ==
    /\ builder.pc = "done"
    /\ Len(builder.codes) >= 3
    /\ \A k \in 1..Len(builder.codes) : builder.codes[k] = builder.codes[1]

\* The number of child fields of the built internal nodes that name ref.
RefsTo(ref) ==
    Cardinality({p \in 1..Len(builder.internals) : builder.internals[p].left = ref})
    + Cardinality({p \in 1..Len(builder.internals) : builder.internals[p].right = ref})

\* The sorted positions of the leaves below ref, followed to depth fuel.
RECURSIVE LeavesUnder(_, _)
LeavesUnder(ref, fuel) ==
    IF ref.kind = "Leaf" THEN {ref.idx}
    ELSE IF ref.kind = "None" \/ fuel = 0 THEN {}
    ELSE LeavesUnder(builder.internals[ref.idx + 1].left, fuel - 1)
         \cup LeavesUnder(builder.internals[ref.idx + 1].right, fuel - 1)

\* C27: after the topology loop exactly one internal node has no has-parent
\* flag and the root search takes it; every other internal node and every leaf
\* is named as a child by exactly one internal node, the root by none; the
\* leaves below the root are all N sorted positions.
C27_OneRootAllLinked ==
    builder.pc = "done"
    => /\ {k \in 1..Len(builder.has_parent) : ~builder.has_parent[k]}
          = {builder.root_idx + 1}
       /\ \A k \in 0..(Len(builder.codes) - 2) :
              RefsTo(Internal(k)) = IF k = builder.root_idx THEN 0 ELSE 1
       /\ \A p \in 0..(Len(builder.codes) - 1) : RefsTo(Leaf(p)) = 1
       /\ LeavesUnder(Internal(builder.root_idx), Len(builder.codes))
          = 0..(Len(builder.codes) - 1)

\* A finished loop over the longest code array, with equal codes in it and an
\* internal node below the root on both sides.
C27_Witness ==
    /\ builder.pc = "done"
    /\ Len(builder.codes) = MaxCodes
    /\ \E k \in 1..(MaxCodes - 1) : builder.codes[k] = builder.codes[k + 1]
    /\ builder.internals[builder.root_idx + 1].left.kind = "Internal"
    /\ builder.internals[builder.root_idx + 1].right.kind = "Internal"

\* C28: whatever the order in which the iterations for the internal nodes
\* start and the way their steps interleave, the child assignments, the
\* has-parent flags and the root are those of the loop run from 0 to N - 2.
C28_OrderIndependent ==
    builder.pc = "done"
    => \E t \in {Topology(builder.codes)} :
           /\ builder.internals = t.internals
           /\ builder.has_parent = t.has_parent
           /\ builder.root_idx = FindRoot(t.has_parent)

\* The last internal node linked first, the first one last.
C28_Witness ==
    /\ builder.pc = "done"
    /\ builder.order = "any"
    /\ Len(builder.codes) = MaxCodes
    /\ \A k \in 1..(MaxCodes - 1) : builder.linked[k] = MaxCodes - 1 - k

\* The pairs of guids of the session whose inflated boxes overlap.
OverlappingGuids ==
    {{p[1], p[2]} :
        p \in {q \in Guids(session) \X Guids(session) :
                  /\ q[1] # q[2]
                  /\ Overlap(compute_bounding_box(session.lookup[q[1]]),
                             compute_bounding_box(session.lookup[q[2]]))}}

\* C22: get_collisions returns every pair of session objects whose inflated
\* boxes overlap, and only those, whatever order the lookup table yields the
\* objects in; afterwards the graph holds a "bvh_collision" edge between the
\* two guids of every returned pair.
C22_CollisionsCompleteWithEdges ==
    result.op = "get_collisions"
    => /\ {{result.pairs[k][1], result.pairs[k][2]} : k \in 1..Len(result.pairs)}
          = OverlappingGuids
       /\ \A k \in 1..Len(result.pairs) :
              [ends |-> {result.pairs[k][1], result.pairs[k][2]},
               attribute |-> "bvh_collision"] \in session.graph.edges

\* C23: a ray_cast reports only guids that are in the session when it is
\* called: remove_object that returns true has taken the guid out of the lookup
\* table, and no later ray_cast reports it unless it was added again, also when
\* the cached ray BVH was built with it.
C23_NoHitOnRemoved ==
    /\ result.op = "session_ray_cast"
       => /\ result.hits \subseteq Guids(session)
          /\ result.hits \cap session.history.stale = {}
    /\ (result.op = "remove_object" /\ result.removed) => result.guid \notin Guids(session)

\* A ray_cast that reports a hit after an object was removed that the cached
\* ray BVH had listed.
C23_Witness ==
    /\ result.op = "session_ray_cast"
    /\ result.hits # {}
    /\ session.history.stale # {}

\* Whenever ray_cast traverses the cached ray BVH, the cached lists hold one
\* entry per lookup entry, the box of the geometry at the position of its guid,
\* and the leaves of the BVH are the positions of the lists with their boxes.
CacheInStep ==
    (result.op = "session_ray_cast" /\ result.queried)
    => /\ ~session.bvh_cache_dirty
       /\ Len(session.cached_guids) = Cardinality(Guids(session))
       /\ Len(session.cached_boxes) = Cardinality(Guids(session))
       /\ Range(session.cached_guids) = Guids(session)
       /\ \A k \in 1..Len(session.cached_guids) :
              session.cached_boxes[k]
              = compute_bounding_box(session.lookup[session.cached_guids[k]])
       /\ {n.object_id : n \in {m \in Range(session.cached_ray_bvh.arena) : IsLeaf(m)}}
          = 0..(Len(session.cached_boxes) - 1)
       /\ \A n \in Range(session.cached_ray_bvh.arena) :
              IsLeaf(n) => n.aabb = from_bbox(session.cached_boxes[n.object_id + 1])

\* C30 as stated: the cached lists are in step with the lookup table whenever
\* the cached BVH is traversed, and a ray_cast that follows another ray_cast
\* with no add, remove or load in between does not build the BVH again.
C30_CacheInStepAndReused ==
    /\ CacheInStep
    /\ (result.op = "session_ray_cast" /\ result.follows_ray_cast) => ~result.rebuilt

====
